---- MODULE Spec2Model ----
(***************************************************************************)
(* A model of napari_nd2_folder_viewer/_widget.py: the channel reconciler, *)
(* the shape normalizer, the timestamp reconstruction, the duplicate       *)
(* timestamp correction, the stage-position grid resolver, the folder      *)
(* prober and the load handler of LoadWidget.                              *)
(*                                                                         *)
(* Conventions.  Python sequences are TLA+ sequences, so a Python index j  *)
(* is the TLA+ index j + 1; tensors are functions over 0-based index       *)
(* ranges, as numpy indexes them.  A lazy image is described by its shape  *)
(* and by where the planes along its channel axis and its z axis come      *)
(* from (a plane of the file, or an all-zero plane); pixel values play no  *)
(* role in the code that is modelled.  The external reader (nd2) is        *)
(* modelled by the values the code reads from it.                          *)
(***************************************************************************)
EXTENDS Integers, Sequences, FiniteSets, TLC

VARIABLES
    \* insert_nd2_file_channels: its arguments, its result, whether it raised
    rc_channel_names, rc_channel_names_, rc_img, rc_pc,
    \* get_position_names_and_inds: the stage positions of the file, the two
    \* inversion flags, and what the call returned
    gr_points, gr_invert_x, gr_invert_y, gr_result, gr_pc,
    \* the frame loops of nd2_file_to_dask: the file's coord_info, frame count
    \* and frame timestamps, the canonical mlen and zlen, the loop index i,
    \* the tensor being filled
    tw_coord_info, tw_frameCount, tw_clock, tw_mlen, tw_zlen, tw_i, tw_tmp_times, tw_pc,
    \* test_nd2_timestamps: the tensor and the periodMs of the file it is
    \* called with, and what each of two successive calls returned
    du_times, du_periodMs, du_first, du_second, du_pc,
    \* the image part of nd2_file_to_dask: the file, the canonical zlen and
    \* channel_names it is called with, and the image it built (or the error)
    nz_file, nz_zlen, nz_channel_names, nz_result, nz_pc,
    \* get_nd2_files_in_folder: the .nd2 files of the folder in sorted order,
    \* and what the call returned
    pb_folder, pb_result, pb_pc,
    \* LoadWidget: its fields, the viewer's layers, the callbacks connected to
    \* the cursor event, the folder in file_edit when the button was last
    \* clicked, how that click ended, and the number of clicks so far
    self_channel_names, self_exp_info, self_times, self_stack,
    self_chip_channel_names, self_colors, self_opacities,
    viewer_layers, viewer_connected, lw_root, lw_outcome, lw_clicks

rcVars == <<rc_channel_names, rc_channel_names_, rc_img, rc_pc>>
grVars == <<gr_points, gr_invert_x, gr_invert_y, gr_result, gr_pc>>
twVars == <<tw_coord_info, tw_frameCount, tw_clock, tw_mlen, tw_zlen, tw_i,
            tw_tmp_times, tw_pc>>
duVars == <<du_times, du_periodMs, du_first, du_second, du_pc>>
nzVars == <<nz_file, nz_zlen, nz_channel_names, nz_result, nz_pc>>
pbVars == <<pb_folder, pb_result, pb_pc>>
selfVars == <<self_channel_names, self_exp_info, self_times, self_stack,
              self_chip_channel_names, self_colors, self_opacities>>
lwVars == <<selfVars, viewer_layers, viewer_connected, lw_root, lw_outcome, lw_clicks>>
vars == <<rcVars, grVars, twVars, duVars, nzVars, pbVars, lwVars>>

(***************************************************************************)
(* Bounds of the model and small input sets.                               *)
(***************************************************************************)
MaxChan == 2
MaxPos == 3
MaxT == 2
MaxP == 2
MaxZ == 2
MaxFiles == 2
MaxClicks == 2

ChannelNameSet == {"DAPI", "GFP", "mRuby"}
\* rows and columns of a frame (xylen); never changed by the code
FrameYX == <<4, 4>>

Range(s) == {s[i] : i \in 1..Len(s)}
SeqsUpTo(S, n) == UNION {[1..k -> S] : k \in 1..n}
Max2(a, b) == IF a >= b THEN a ELSE b
\* F(v), with v evaluated once and F applied to the value
Let(v, F(_)) == CHOOSE out \in {F(x) : x \in {v}} : TRUE
\* the outcome of a call: the value it returned, or the exception it raised
Raised(what) == [ok |-> FALSE, error |-> what]
Returned(v) == [ok |-> TRUE, value |-> v]
Abs(a) == IF a < 0 THEN -a ELSE a
RECURSIVE SumSeq(_)
SumSeq(s) == IF s = <<>> THEN 0 ELSE Head(s) + SumSeq(Tail(s))
RECURSIVE Concat(_)
Concat(ss) == IF ss = <<>> THEN <<>> ELSE Head(ss) \o Concat(Tail(ss))
\* the members of the index set S in increasing order: nums[mask]
RECURSIVE Ascending(_)
Ascending(S) ==
    IF S = {} THEN <<>>
    ELSE LET m == CHOOSE a \in S : \A b \in S : a <= b
         IN  <<m>> \o Ascending(S \ {m})
Reverse(s) == [k \in 1..Len(s) |-> s[Len(s) + 1 - k]]

(***************************************************************************)
(* Lazy images.  shape is the array's shape; chan[i] names the source of   *)
(* plane i of the channel axis (axis -3): j >= 1 is plane j of the file's  *)
(* own channel axis, ZeroPlane an all-zero plane; zsrc does the same for   *)
(* the z axis and is <<>> while the array has no z axis.                   *)
(***************************************************************************)
ZeroPlane == 0

\* nd2_file.to_dask() of a file whose loops have the extents `lead` and that
\* has nchan channels and, when zl > 0, a z axis of zl planes
RawImage(lead, nchan, zl) ==
    [shape |-> lead \o <<nchan>> \o FrameYX,
     chan  |-> [j \in 1..nchan |-> j],
     zsrc  |-> [k \in 1..zl |-> k]]

\* list.index(cn): the first position of cn (1-based here), 0 standing for
\* the ValueError that list.index raises when cn is absent
index(names, cn) ==
    IF cn \in Range(names)
    THEN CHOOSE j \in 1..Len(names) :
            names[j] = cn /\ \A k \in 1..(j - 1) : names[k] # cn
    ELSE 0

\* a reconciler that keeps the file's own channels in the file's order
insert_nd2_file_channels_native(img_, channel_names, channel_names_) ==
    img_
\* img_[..., j, :, :] and da.zeros_like(img_[..., 0, :, :]) stacked on axis -3
insert_nd2_file_channels(img_, channel_names, channel_names_) ==
    LET n == Len(img_.shape)
        imgs == [i \in 1..Len(channel_names) |->
                    LET j == index(channel_names_, channel_names[i])
                    IN  IF j # 0 THEN img_.chan[j] ELSE ZeroPlane]
    IN  [img_ EXCEPT !.chan = imgs,
                     !.shape = [a \in 1..n |->
                                 IF a = n - 2 THEN Len(imgs) ELSE img_.shape[a]]]

(***************************************************************************)
(* The reader's coordinate metadata.  coord_info is a sequence of          *)
(* <<index, type, count>>, one entry per loop of the experiment, a loop    *)
(* that the file does not have being absent.  The code assumes the loops   *)
(* come in the order time, position, z; so do the files modelled here,     *)
(* and each of them has an XYPosLoop.                                      *)
(***************************************************************************)
CoordInfo(ttype, t, p, z) ==
    LET loops == (IF t > 0 THEN <<<<ttype, t>>>> ELSE <<>>)
                   \o <<<<"XYPosLoop", p>>>>
                   \o (IF z > 0 THEN <<<<"ZStackLoop", z>>>> ELSE <<>>)
    IN  [n \in 1..Len(loops) |-> <<n - 1, loops[n][1], loops[n][2]>>]

\* the count of the first loop whose type is in `types`, 0 when there is none
loop_size(coord_info, types) ==
    LET hits == {n \in 1..Len(coord_info) : coord_info[n][2] \in types}
    IN  IF hits = {} THEN 0
        ELSE coord_info[CHOOSE n \in hits : \A m \in hits : n <= m][3]

get_zstack_size(coord_info) == loop_size(coord_info, {"ZStackLoop"})
get_tstack_size(coord_info) == loop_size(coord_info, {"NETimeLoop", "TimeLoop"})
get_xy_size(coord_info) == loop_size(coord_info, {"XYPosLoop"})

\* nd2_file._rdr._coords_from_seq_index(i): the frame's index along every
\* loop of the file, the last loop running fastest
RECURSIVE Product(_)
Product(s) == IF s = <<>> THEN 1 ELSE Head(s) * Product(Tail(s))
coords_from_seq_index(coord_info, i) ==
    LET counts == [n \in 1..Len(coord_info) |-> coord_info[n][3]]
    IN  [n \in 1..Len(counts) |->
            (i \div Product(SubSeq(counts, n + 1, Len(counts)))) % counts[n]]

(***************************************************************************)
(* Timestamp tensors: a shape <<T, P, Z>> and a value per cell <<t, p, z>>,*)
(* indices from 0.  A timestamp (a Julian day number in the code) is a     *)
(* whole number of ticks; see TicksPerDay.                                 *)
(***************************************************************************)
Cells(shape) == (0..(shape[1] - 1)) \X (0..(shape[2] - 1)) \X (0..(shape[3] - 1))
\* np.zeros((tlen, mlen, zlen))
Zeros(shape) == [shape |-> shape, at |-> [c \in Cells(shape) |-> 0]]

\* tmp_times[:, k, :] = v, k being the whole coordinate tuple (a fancy index)
assign_all_k_all(tmp, k, v) ==
    [tmp EXCEPT !.at = [c \in Cells(tmp.shape) |->
                          IF c[2] \in Range(k) THEN v ELSE tmp.at[c]]]
\* tmp_times[:, k, l] = v
assign_all_k_l(tmp, k, l, v) ==
    [tmp EXCEPT !.at = [c \in Cells(tmp.shape) |->
                          IF c[2] = k /\ c[3] = l THEN v ELSE tmp.at[c]]]
\* an assignment that writes the first z index only, tmp_times[j, k, 0] = v
assign_j_k_first(tmp, j, k, v) ==
    [tmp EXCEPT !.at = [c \in Cells(tmp.shape) |->
                          IF c[1] = j /\ c[2] = k /\ c[3] = 0 THEN v ELSE tmp.at[c]]]
\* tmp_times[j, k, :] = v
assign_j_k_all(tmp, j, k, v) ==
    [tmp EXCEPT !.at = [c \in Cells(tmp.shape) |->
                          IF c[1] = j /\ c[2] = k THEN v ELSE tmp.at[c]]]
\* tmp_times[j, k, l] = v
assign_j_k_l(tmp, j, k, l, v) ==
    [tmp EXCEPT !.at = [c \in Cells(tmp.shape) |->
                          IF c = <<j, k, l>> THEN v ELSE tmp.at[c]]]

\* frame_metadata(i).channels[0].time.absoluteJulianDayNumber, in ticks, for
\* three kinds of device clock: one that advances with every frame, one that
\* advances every other frame, and one stuck at the same value
ClockKinds == {"running", "coarse", "stuck"}
FirstStamp == 100
absoluteJulianDayNumber(clock, i) ==
    CASE clock = "running" -> FirstStamp + i
      [] clock = "coarse"  -> FirstStamp + (i \div 2)
      [] OTHER             -> FirstStamp

\* one pass of the frame loop (the body of the branch that the file's
\* extents select): the tensor after frame i, or the IndexError of an index
\* outside the tensor
frame_step(coord_info, clock, tmp, i) ==
    LET tlen_ == get_tstack_size(coord_info)
        zlen_ == get_zstack_size(coord_info)
        co == coords_from_seq_index(coord_info, i)
        v == absoluteJulianDayNumber(clock, i)
        inside(t, k, l) == t < tmp.shape[1] /\ k < tmp.shape[2] /\ l < tmp.shape[3]
    IN  IF tlen_ = 0 /\ zlen_ = 0
        THEN IF inside(0, co[1], 0)
             THEN Returned(assign_all_k_all(tmp, co, v)) ELSE Raised("IndexError")
        ELSE IF tlen_ = 0
        THEN IF inside(0, co[1], co[2])
             THEN Returned(assign_all_k_l(tmp, co[1], co[2], v)) ELSE Raised("IndexError")
        ELSE IF zlen_ = 0
        THEN IF inside(co[1], co[2], 0)
             THEN Returned(assign_j_k_all(tmp, co[1], co[2], v)) ELSE Raised("IndexError")
        ELSE IF inside(co[1], co[2], co[3])
             THEN Returned(assign_j_k_l(tmp, co[1], co[2], co[3], v))
             ELSE Raised("IndexError")

\* the whole loop, from frame i on
RECURSIVE frame_loop(_, _, _, _, _)
frame_loop(coord_info, clock, frameCount, tmp, i) ==
    IF i >= frameCount THEN Returned(tmp)
    ELSE Let(frame_step(coord_info, clock, tmp, i),
             LAMBDA r : IF r.ok
                        THEN frame_loop(coord_info, clock, frameCount, r.value, i + 1)
                        ELSE r)

\* tlen of nd2_file_to_dask: a file without a time loop has one timepoint
tlen_of(tlen_) == IF tlen_ = 0 THEN 1 ELSE tlen_

(***************************************************************************)
(* Files.  A file is what the code reads from the reader: coord_info, the  *)
(* channel names, whether to_dask() dropped a time axis of extent 1        *)
(* (squeezedT), the stage positions, the frame timestamps (clock) and the  *)
(* periodMs of its first experiment loop; it holds all the frames its      *)
(* loops announce (metadata.contents.frameCount).                          *)
(***************************************************************************)
File(ttype, t, squeezedT, z, names, points, clock, periodMs) ==
    [coord_info |-> CoordInfo(ttype, t, Len(points), z),
     channel_names |-> names,
     squeezedT |-> squeezedT /\ t = 1,
     points |-> points,
     clock |-> clock,
     periodMs |-> periodMs,
     frameCount |-> Max2(t, 1) * Len(points) * Max2(z, 1)]

\* nd2_file.to_dask(): one axis per loop, then channel, row, column
to_dask(f) ==
    LET kept == SelectSeq(f.coord_info,
                    LAMBDA ci : ~(f.squeezedT /\ ci[2] \in {"NETimeLoop", "TimeLoop"}))
    IN  RawImage([n \in 1..Len(kept) |-> kept[n][3]],
                 Len(f.channel_names), get_zstack_size(f.coord_info))

\* da.expand_dims(img, axis), axis counted from 0
expand_dims(img, axis) ==
    [img EXCEPT !.shape = SubSeq(img.shape, 1, axis) \o <<1>>
                            \o SubSeq(img.shape, axis + 1, Len(img.shape)),
                !.zsrc = IF axis = 2 THEN <<1>> ELSE img.zsrc]
\* da.zeros_like(img)
zeros_like(img) ==
    [img EXCEPT !.zsrc = [k \in 1..Len(img.zsrc) |-> ZeroPlane]]
\* da.zeros(shape, ...) for the shape of img with shape[2] = n
zeros_z(img, n) ==
    [img EXCEPT !.shape[3] = n, !.zsrc = [k \in 1..n |-> ZeroPlane]]
\* da.concatenate(blocks, axis=2)
concatenate_z(blocks) ==
    [blocks[1] EXCEPT
        !.shape[3] = SumSeq([b \in 1..Len(blocks) |-> blocks[b].shape[3]]),
        !.zsrc = Concat([b \in 1..Len(blocks) |-> blocks[b].zsrc])]

\* lines 198-210: the z axis of a file without one, padded to zlen planes;
\* da.zeros raises ValueError for the negative extent zlen - 2
pad_z(img, zlen) ==
    LET first_img == zeros_like(img)
    IN  IF zlen - 2 < 0 THEN Raised("ValueError")
        ELSE Returned(concatenate_z(<<first_img, img, zeros_z(img, zlen - 2)>>))

\* lines 186-210 of nd2_file_to_dask: the image it returns, or the error
nd2_image(f, zlen, channel_names) ==
    LET tlen_ == get_tstack_size(f.coord_info)
        zlen_ == get_zstack_size(f.coord_info)
        img0 == insert_nd2_file_channels(to_dask(f), channel_names, f.channel_names)
        img1 == IF \/ tlen_ = 0
                   \/ (tlen_ = 1 /\ zlen_ = 0 /\ Len(img0.shape) = 4)
                   \/ (tlen_ = 1 /\ zlen_ # 0 /\ Len(img0.shape) = 5)
                THEN expand_dims(img0, 0)
                ELSE img0
    IN  IF zlen_ = 0 THEN pad_z(expand_dims(img1, 2), zlen) ELSE Returned(img1)

(***************************************************************************)
(* Duplicate-timestamp correction.  Timestamps are stored with a finite    *)
(* resolution, one tick; a day has TicksPerDay ticks (the model's tick is  *)
(* a second, a float64 Julian day number resolves about 40 microseconds).  *)
(* An increment is computed exactly and the sum is rounded to the nearest  *)
(* tick, as the float addition rounds it.                                  *)
(***************************************************************************)
MsPerSecond == 1000
SecondsPerDay == 24 * 3600
TicksPerDay == SecondsPerDay

\* the nearest whole number to a / b, for a >= 0 and b > 0
RoundDiv(a, b) == (2 * a + b) \div (2 * b)

\* an increment that forgets the timepoint index: in_julian for every row
add_time_constant(i, periodMs) ==
    RoundDiv(periodMs * TicksPerDay, MsPerSecond * SecondsPerDay)
\* np.arange(times.shape[0]) * in_julian at index i, in ticks, with
\* period_time = periodMs / 1000 and in_julian = period_time / (24 * 3600)
add_time(i, periodMs) ==
    RoundDiv(i * periodMs * TicksPerDay, MsPerSecond * SecondsPerDay)

\* a trigger that fires on any zero difference, np.any in place of np.all
duplicate_run_any(times) ==
    /\ times.shape[1] # 1
    /\ \E c \in Cells(times.shape) :
          c[1] + 1 < times.shape[1]
            /\ times.at[<<c[1] + 1, c[2], c[3]>>] - times.at[c] = 0
\* times.shape[0] != 1 and np.all(np.diff(times, axis=0) == 0.0)
duplicate_run(times) ==
    /\ times.shape[1] # 1
    /\ \A c \in Cells(times.shape) :
          c[1] + 1 < times.shape[1]
            => times.at[<<c[1] + 1, c[2], c[3]>>] - times.at[c] = 0

\* the value returned, and whether "made afjustment" was printed
test_nd2_timestamps(times, periodMs) ==
    IF duplicate_run(times)
    THEN [adjusted |-> TRUE,
          times |-> [times EXCEPT !.at = [c \in Cells(times.shape) |->
                                            times.at[c] + add_time(c[1], periodMs)]]]
    ELSE [adjusted |-> FALSE, times |-> times]

(***************************************************************************)
(* Stage-position grid resolver.  A point is <<x, y>> (stagePositionUm     *)
(* without its z).  Positions are numbered from 0 as numpy numbers them.   *)
(* The mean of the in-window distances is kept as the exact fraction       *)
(* sum / count; an empty mean is numpy's nan, and every comparison with    *)
(* nan is false.                                                           *)
(***************************************************************************)
WindowLow == 2000
WindowHigh == 6000
LaneCount == 10


\* get_stage_positions followed by the in-place pos[:, 0] *= -1
get_stage_positions(points, invert_x) ==
    [k \in 1..Len(points) |->
        IF invert_x THEN <<-points[k][1], points[k][2]>> ELSE points[k]]

\* pairwise_distances(...).flatten() restricted to the window, as a sequence
\* over all ordered pairs (a, b)
nearest_neighbors(pos) ==
    LET n == Len(pos)
        d(a, b) == Abs(pos[a][1] - pos[b][1])
    IN  SelectSeq([k \in 1..(n * n) |-> d(((k - 1) \div n) + 1, ((k - 1) % n) + 1)],
                  LAMBDA v : v > WindowLow /\ v < WindowHigh)

\* nearest_neighbors.mean(): nan for an empty selection, else sum / count
mean_diff(pos) ==
    LET nn == nearest_neighbors(pos)
    IN  [nan |-> nn = <<>>, num |-> SumSeq(nn), den |-> Len(nn)]

min_x(pos) == CHOOSE m \in {pos[k][1] : k \in 1..Len(pos)} :
                  \A k \in 1..Len(pos) : m <= pos[k][1]

\* tmp_inds of lane i: min_ < x_pos and x_pos < max_, with
\* mid_ = min_x + i * mean_diff and std_diff = mean_diff / 3, all three
\* sides multiplied by 3 * count
tmp_inds(pos, i) ==
    LET md == mean_diff(pos)
        lo == 3 * md.den * min_x(pos) + 3 * i * md.num - md.num
        hi == 3 * md.den * min_x(pos) + 3 * i * md.num + md.num
    IN  {k \in 0..(Len(pos) - 1) :
            /\ ~md.nan
            /\ lo < 3 * md.den * pos[k + 1][1]
            /\ 3 * md.den * pos[k + 1][1] < hi}

\* np.argsort of a short array (insertion sort: equal keys keep their order),
\* as 0-based indices into y_pos
argsort(y_pos) ==
    LET m == Len(y_pos)
        rank(e) == 1 + Cardinality({k \in 1..m :
                        y_pos[k] < y_pos[e] \/ (y_pos[k] = y_pos[e] /\ k < e)})
    IN  [r \in 1..m |-> (CHOOSE e \in 1..m : rank(e) = r) - 1]

\* a pass that leaves the members of lane i in raw order (no argsort)
lane_unsorted(pos, i, invert_y) ==
    LET members == Ascending(tmp_inds(pos, i))
    IN  [total |-> members,
         names |-> [j \in 1..Len(members) |->
                      <<members[j], [prefix |-> "ch", lane |-> i + 1, row |-> j]>>]]
\* one pass of the loop over the lanes: the sorted raw indices of lane i
\* (nums[tmp_inds][sort_inds]) and the labels it assigns
lane(pos, i, invert_y) ==
    LET members == Ascending(tmp_inds(pos, i))
        y_pos == [k \in 1..Len(members) |-> pos[members[k] + 1][2]]
        sorted == argsort(y_pos)
        sort_inds == IF invert_y THEN Reverse(sorted) ELSE sorted
    IN  [total |-> [j \in 1..Len(sort_inds) |-> members[sort_inds[j] + 1]],
         names |-> [j \in 1..Len(sort_inds) |->
                      <<members[sort_inds[j] + 1],
                        [prefix |-> "ch", lane |-> i + 1, row |-> j]>>]]

\* the None of np.empty(..., dtype=object)
NoName == [prefix |-> "None", lane |-> 0, row |-> 0]

\* the value returned: pos, channel_names (NoName where no lane took the
\* position) and np.concatenate(total_sort)
get_position_names_and_inds(points, invert_x, invert_y) ==
    LET pos == get_stage_positions(points, invert_x)
        lanes == [i \in 1..LaneCount |-> lane(pos, i - 1, invert_y)]
        named == UNION {Range(lanes[i].names) : i \in 1..LaneCount}
    IN  [pos |-> pos,
         channel_names |->
            [k \in 0..(Len(pos) - 1) |->
                IF \E e \in named : e[1] = k
                THEN (CHOOSE e \in named : e[1] = k)[2]
                ELSE NoName],
         total_sort |-> Concat([i \in 1..LaneCount |-> lanes[i].total])]

(***************************************************************************)
(* The folder prober.  A folder is the sequence of its .nd2 files in the   *)
(* order of sorted(os.listdir(folder)).                                    *)
(***************************************************************************)
\* np.argmax: the first index (from 0) of the largest value
argmax(lens) ==
    (CHOOSE n \in 1..Len(lens) :
        /\ \A m \in 1..Len(lens) : lens[m] <= lens[n]
        /\ \A m \in 1..(n - 1) : lens[m] < lens[n]) - 1

\* a prober that takes every extent from the first file of the folder
get_nd2_files_in_folder_first(folder) ==
    IF folder = <<>> THEN Raised("ValueError")
    ELSE Returned([nd2_files |-> folder,
                   xylen |-> FrameYX[2],
                   mlen |-> get_xy_size(folder[1].coord_info),
                   zlen |-> get_zstack_size(folder[1].coord_info),
                   channel_names |-> folder[1].channel_names])
\* max() of an empty list raises ValueError
get_nd2_files_in_folder(folder) ==
    LET zstack_sizes == [n \in 1..Len(folder) |-> get_zstack_size(folder[n].coord_info)]
        channel_names_list == [n \in 1..Len(folder) |-> folder[n].channel_names]
        channel_names_len == [n \in 1..Len(folder) |-> Len(channel_names_list[n])]
        ind == argmax(channel_names_len)
    IN  IF folder = <<>> THEN Raised("ValueError")
        ELSE Returned([nd2_files |-> folder,
                       xylen |-> FrameYX[2],
                       mlen |-> get_xy_size(folder[ind + 1].coord_info),
                       zlen |-> CHOOSE z \in Range(zstack_sizes) :
                                    \A y \in Range(zstack_sizes) : y <= z,
                       channel_names |-> channel_names_list[ind + 1]])

(***************************************************************************)
(* nd2_file_to_dask as a whole, and the body of the loop of _on_click.     *)
(***************************************************************************)
nd2_file_to_dask(f, zlen, channel_names, mlen, xylen) ==
    LET tmp_times == Zeros(<<tlen_of(get_tstack_size(f.coord_info)), mlen, zlen>>)
    IN  Let(nd2_image(f, zlen, channel_names), LAMBDA img :
          IF ~img.ok THEN img
          ELSE Let(frame_loop(f.coord_info, f.clock, f.frameCount, tmp_times, 0),
                   LAMBDA walked :
                     IF ~walked.ok THEN walked
                     ELSE Returned([img |-> img.value, tmp_times |-> walked.value])))

\* img_[:, sort_inds, ...]: only the extent of the position axis is kept
take_img(img, sort_inds) ==
    IF \E n \in 1..Len(sort_inds) : sort_inds[n] >= img.shape[2]
    THEN Raised("IndexError")
    ELSE Returned([img EXCEPT !.shape[2] = Len(sort_inds)])
\* tmp_times_[:, sort_inds, ...]
take_times(tmp, sort_inds) ==
    LET shape == <<tmp.shape[1], Len(sort_inds), tmp.shape[3]>>
    IN  IF \E n \in 1..Len(sort_inds) : sort_inds[n] >= tmp.shape[2]
        THEN Raised("IndexError")
        ELSE Returned([shape |-> shape,
                       at |-> [c \in Cells(shape) |->
                                 tmp.at[<<c[1], sort_inds[c[2] + 1], c[3]>>]]])

\* lines 422-436: what one file appends to imgs, times and channel_names
load_file(f, zlen, channel_names, mlen, xylen, exp_info) ==
    Let(nd2_file_to_dask(f, zlen, channel_names, mlen, xylen), LAMBDA nd :
      IF ~nd.ok THEN nd
      ELSE IF f.points = <<>> THEN Raised("TypeError")
      ELSE Let(get_position_names_and_inds(f.points, exp_info.invert_stage_x,
                                           exp_info.invert_stage_y), LAMBDA grid :
        Let(take_img(nd.value.img, grid.total_sort), LAMBDA img :
          Let(take_times(nd.value.tmp_times, grid.total_sort), LAMBDA tmp_times :
            IF ~img.ok THEN img
            ELSE IF ~tmp_times.ok THEN tmp_times
            ELSE Returned(
                   [img |-> img.value,
                    times |-> test_nd2_timestamps(tmp_times.value, f.periodMs).times,
                    channel_names |-> [n \in 1..Len(grid.total_sort) |->
                                         grid.channel_names[grid.total_sort[n]]]])))))

\* np.concatenate(times, axis=0)
concatenate_times(times) ==
    LET starts == [n \in 1..Len(times) |->
                     SumSeq([m \in 1..(n - 1) |-> times[m].shape[1]])]
        shape == <<SumSeq([n \in 1..Len(times) |-> times[n].shape[1]]),
                   times[1].shape[2], times[1].shape[3]>>
        part(t) == CHOOSE n \in 1..Len(times) :
                       starts[n] <= t /\ t < starts[n] + times[n].shape[1]
    IN  IF \E n \in 1..Len(times) :
              times[n].shape[2] # shape[2] \/ times[n].shape[3] # shape[3]
        THEN Raised("ValueError")
        ELSE Returned([shape |-> shape,
                       at |-> [c \in Cells(shape) |->
                                 times[part(c[1])].at[<<c[1] - starts[part(c[1])],
                                                        c[2], c[3]>>]]])
\* da.concatenate(imgs), along axis 0
concatenate_imgs(imgs) ==
    IF \E n \in 1..Len(imgs) :
          \/ Len(imgs[n].shape) # Len(imgs[1].shape)
          \/ Tail(imgs[n].shape) # Tail(imgs[1].shape)
    THEN Raised("ValueError")
    ELSE Returned([imgs[1] EXCEPT
                     !.shape[1] = SumSeq([n \in 1..Len(imgs) |-> imgs[n].shape[1]])])

\* `"GFP" in name` is a substring test; on the names of ChannelNameSet it is
\* equality with the name
color_from_name(name) ==
    CASE name \in {"GFP", "epi"} -> "green"
      [] name = "mRuby" -> "red"
      [] name \in {"brightfield", "Brightfield"} -> "gray"
      [] OTHER -> "blue"

(***************************************************************************)
(* LoadWidget._on_click.  A field that is None is <<>>, a field that is    *)
(* set is <<value>>.  root is the folder in file_edit: its .nd2 files and  *)
(* its exp-info.yaml (<<>> when the folder has none).                      *)
(***************************************************************************)
None == <<>>
Some(v) == <<v>>

\* get_exp_info(os.path.join(root, "exp-info.yaml")): the record whose
\* general_info carries the two stage-inversion flags; a folder without the
\* file cannot be loaded
get_exp_info(yaml) ==
    IF yaml = None THEN Raised("FileNotFoundError")
    ELSE Returned([general_info |-> yaml[1]])

\* the layers that the loop of viewer.add_image appends
added_layers(channel_names, colors, opacities) ==
    [i \in 1..Len(channel_names) |->
        [name |-> channel_names[i], colormap |-> colors[i], opacity |-> opacities[i]]]

\* the handler from its first line to its return or to the statement that
\* raises: `at` is "return" or the place of the exception, `w` the fields,
\* layers and connections it leaves behind
on_click_rest(scan, exp, loaded, w2) ==
    LET colors == [i \in 1..Len(scan.channel_names) |->
                     color_from_name(scan.channel_names[i])]
        opacities == [i \in 1..Len(colors) |-> IF i = 1 THEN "1" ELSE "0.6"]
    IN  IF \E n \in 1..Len(loaded) : ~loaded[n].ok
        THEN [at |-> "loop", w |-> w2]
        ELSE Let(concatenate_times([n \in 1..Len(loaded) |-> loaded[n].value.times]),
                 LAMBDA times :
          IF ~times.ok THEN [at |-> "np.concatenate", w |-> w2]
          ELSE Let(concatenate_imgs([n \in 1..Len(loaded) |-> loaded[n].value.img]),
                   LAMBDA stack :
            IF ~stack.ok
            THEN [at |-> "da.concatenate", w |-> [w2 EXCEPT !.times = Some(times.value)]]
            ELSE [at |-> "return",
                  w |-> [w2 EXCEPT
                           !.times = Some(times.value),
                           !.stack = Some(stack.value),
                           !.colors = Some(colors),
                           !.opacities = Some(opacities),
                           !.chip_channel_names = Some(loaded[1].value.channel_names),
                           !.connected = w2.connected + 1,
                           !.layers = w2.layers
                               \o added_layers(scan.channel_names, colors, opacities)]]))
on_click(root, w) ==
    Let(get_nd2_files_in_folder(root.files), LAMBDA probe :
      IF ~probe.ok THEN [at |-> "get_nd2_files_in_folder", w |-> w]
      ELSE Let(get_exp_info(root.yaml), LAMBDA exp :
        IF ~exp.ok
        THEN [at |-> "get_exp_info",
              w |-> [w EXCEPT !.channel_names = Some(probe.value.channel_names)]]
        ELSE Let([n \in 1..Len(probe.value.nd2_files) |->
                    load_file(probe.value.nd2_files[n], probe.value.zlen,
                              probe.value.channel_names, probe.value.mlen,
                              probe.value.xylen, exp.value.general_info)],
                 LAMBDA loaded :
                   on_click_rest(probe.value, exp.value, loaded,
                                 [w EXCEPT
                                    !.channel_names = Some(probe.value.channel_names),
                                    !.exp_info = Some(exp.value)]))))

(***************************************************************************)
(* The channel reconciler as a state machine: one call on chosen inputs.   *)
(***************************************************************************)
RcIdle ==
    /\ rc_channel_names = <<>>
    /\ rc_channel_names_ = <<>>
    /\ rc_img = RawImage(<<1>>, 1, 0)
    /\ rc_pc = "idle"

\* a file has at least one channel, and the canonical list is some file's
RcInit ==
    /\ rc_channel_names \in SeqsUpTo(ChannelNameSet, MaxChan + 1)
    /\ rc_channel_names_ \in SeqsUpTo(ChannelNameSet, MaxChan + 1)
    /\ rc_img = RawImage(<<2>>, Len(rc_channel_names_), 0)
    /\ rc_pc = "call"

Reconcile ==
    /\ rc_pc = "call"
    /\ rc_img' = insert_nd2_file_channels(rc_img, rc_channel_names, rc_channel_names_)
    /\ rc_pc' = "returned"
    /\ UNCHANGED <<rc_channel_names, rc_channel_names_>>
    /\ UNCHANGED <<grVars, twVars, duVars, nzVars, pbVars, lwVars>>

(***************************************************************************)
(* The grid resolver as a state machine: one call on chosen positions.     *)
(***************************************************************************)
XVals == {0, 2500, 4000, 5000, 8000}
YVals == {0, 100}
PitchVals == {3000, 4000}

\* one position per lane, L lanes at the given pitch, in raw order or reversed
WideGrid(L, pitch, backwards) ==
    [k \in 1..L |-> <<(IF backwards THEN L - k ELSE k - 1) * pitch, 0>>]

GridInputs ==
    SeqsUpTo(XVals \X YVals, MaxPos)
      \cup {WideGrid(L, p, b) : L \in 1..(LaneCount + 1), p \in PitchVals, b \in BOOLEAN}
      \cup {<<>>}

GrIdle ==
    /\ gr_points = <<>>
    /\ gr_invert_x = FALSE
    /\ gr_invert_y = FALSE
    /\ gr_result = "none"
    /\ gr_pc = "idle"

GrInit ==
    /\ gr_points \in GridInputs
    /\ gr_invert_x \in BOOLEAN
    /\ gr_invert_y \in BOOLEAN
    /\ gr_result = "none"
    /\ gr_pc = "call"

\* get_stage_positions returned an array: the call runs to its return
Resolve ==
    /\ gr_pc = "call"
    /\ gr_points # <<>>
    /\ gr_result' = get_position_names_and_inds(gr_points, gr_invert_x, gr_invert_y)
    /\ gr_pc' = "returned"
    /\ UNCHANGED <<gr_points, gr_invert_x, gr_invert_y>>
    /\ UNCHANGED <<rcVars, twVars, duVars, nzVars, pbVars, lwVars>>

\* no XYPosLoop: get_stage_positions returned the list [], and pos[:, 0]
\* raises TypeError
ResolveRaises ==
    /\ gr_pc = "call"
    /\ gr_points = <<>>
    /\ gr_pc' = "raised"
    /\ UNCHANGED <<gr_points, gr_invert_x, gr_invert_y, gr_result>>
    /\ UNCHANGED <<rcVars, twVars, duVars, nzVars, pbVars, lwVars>>

(***************************************************************************)
(* The frame loops of nd2_file_to_dask as a state machine: one step per    *)
(* frame, one action per branch of the if / elif chain.                    *)
(***************************************************************************)
TwIdle ==
    /\ tw_coord_info = <<>>
    /\ tw_frameCount = 0
    /\ tw_clock = "stuck"
    /\ tw_mlen = 0
    /\ tw_zlen = 0
    /\ tw_i = 0
    /\ tw_tmp_times = Zeros(<<0, 0, 0>>)
    /\ tw_pc = "idle"

\* the state at line 212: the tensor is allocated, the image part has run
\* (so zlen >= 2 when the file has no z axis), zlen is at least the file's own
\* z extent, and the file holds at most all the frames its loops announce
TwInit ==
    /\ \E t \in 0..MaxT, p \in 1..MaxP, z \in 0..MaxZ,
          ttype \in {"TimeLoop", "NETimeLoop"} :
          tw_coord_info = CoordInfo(ttype, t, p, z)
    /\ tw_mlen \in 1..MaxP
    /\ tw_zlen \in Max2(get_zstack_size(tw_coord_info), 1)..(MaxZ + 1)
    /\ get_zstack_size(tw_coord_info) = 0 => tw_zlen >= 2
    /\ tw_frameCount \in
          0..Product([n \in 1..Len(tw_coord_info) |-> tw_coord_info[n][3]])
    /\ tw_clock \in ClockKinds
    /\ tw_i = 0
    /\ tw_tmp_times =
          Zeros(<<tlen_of(get_tstack_size(tw_coord_info)), tw_mlen, tw_zlen>>)
    /\ tw_pc = "loop"

TwTlen_ == get_tstack_size(tw_coord_info)
TwZlen_ == get_zstack_size(tw_coord_info)
TwFrame == frame_step(tw_coord_info, tw_clock, tw_tmp_times, tw_i)
TwStep ==
    /\ TwFrame.ok
    /\ tw_tmp_times' = TwFrame.value
    /\ tw_i' = tw_i + 1
    /\ UNCHANGED <<tw_coord_info, tw_frameCount, tw_clock, tw_mlen, tw_zlen, tw_pc>>
    /\ UNCHANGED <<rcVars, grVars, duVars, nzVars, pbVars, lwVars>>

\* if tlen_ == 0 and zlen_ == 0
WalkNoTimeNoZ ==
    /\ tw_pc = "loop" /\ tw_i < tw_frameCount
    /\ TwTlen_ = 0 /\ TwZlen_ = 0
    /\ TwStep

\* elif tlen_ == 0
WalkNoTime ==
    /\ tw_pc = "loop" /\ tw_i < tw_frameCount
    /\ TwTlen_ = 0 /\ TwZlen_ # 0
    /\ TwStep

\* elif zlen_ == 0
WalkNoZ ==
    /\ tw_pc = "loop" /\ tw_i < tw_frameCount
    /\ TwTlen_ # 0 /\ TwZlen_ = 0
    /\ TwStep

\* else
WalkFull ==
    /\ tw_pc = "loop" /\ tw_i < tw_frameCount
    /\ TwTlen_ # 0 /\ TwZlen_ # 0
    /\ TwStep

\* the file has more positions than the tensor (mlen is the representative
\* file's): the assignment raises IndexError
WalkIndexError ==
    /\ tw_pc = "loop" /\ tw_i < tw_frameCount
    /\ ~TwFrame.ok
    /\ tw_pc' = "raised"
    /\ UNCHANGED <<tw_coord_info, tw_frameCount, tw_clock, tw_mlen, tw_zlen, tw_i,
                   tw_tmp_times>>
    /\ UNCHANGED <<rcVars, grVars, duVars, nzVars, pbVars, lwVars>>

\* range(frameCount) is exhausted: return img, tmp_times
WalkReturn ==
    /\ tw_pc = "loop" /\ tw_i = tw_frameCount
    /\ tw_pc' = "returned"
    /\ UNCHANGED <<tw_coord_info, tw_frameCount, tw_clock, tw_mlen, tw_zlen, tw_i,
                   tw_tmp_times>>
    /\ UNCHANGED <<rcVars, grVars, duVars, nzVars, pbVars, lwVars>>

(***************************************************************************)
(* test_nd2_timestamps as a state machine: a call on a tensor, then a      *)
(* second call on what the first returned.                                 *)
(***************************************************************************)
\* periodMs of the file's time loop: none, below one tick, one tick, more
PeriodVals == {0, 400, 1000, 2000}

\* tensors as the frame loops leave them: position p starts at FirstStamp + p,
\* and advances by one tick per timepoint after timepoint `hold`, unless p is
\* in `stuck`, where the clock never advances
TimesInput(shape, stuck, hold) ==
    [shape |-> shape,
     at |-> [c \in Cells(shape) |->
               FirstStamp + c[2]
                 + (IF c[2] \in stuck \/ c[1] <= hold THEN 0 ELSE c[1] - hold)]]

DuIdle ==
    /\ du_times = Zeros(<<0, 0, 0>>)
    /\ du_periodMs = 0
    /\ du_first = [adjusted |-> FALSE, times |-> Zeros(<<0, 0, 0>>)]
    /\ du_second = [adjusted |-> FALSE, times |-> Zeros(<<0, 0, 0>>)]
    /\ du_pc = "idle"

\* at least one timepoint and one z plane; the position axis is empty when
\* the grid resolver returned no index
DuInit ==
    /\ \E t \in 1..(MaxT + 1), p \in 0..MaxP, z \in 1..MaxZ :
          \E stuck \in SUBSET (0..(p - 1)), hold \in 0..(t - 1) :
              du_times = TimesInput(<<t, p, z>>, stuck, hold)
    /\ du_periodMs \in PeriodVals
    /\ du_first = [adjusted |-> FALSE, times |-> Zeros(<<0, 0, 0>>)]
    /\ du_second = [adjusted |-> FALSE, times |-> Zeros(<<0, 0, 0>>)]
    /\ du_pc = "call"

TestTimestamps ==
    /\ du_pc = "call"
    /\ du_first' = test_nd2_timestamps(du_times, du_periodMs)
    /\ du_pc' = "once"
    /\ UNCHANGED <<du_times, du_periodMs, du_second>>
    /\ UNCHANGED <<rcVars, grVars, twVars, nzVars, pbVars, lwVars>>

TestTimestampsAgain ==
    /\ du_pc = "once"
    /\ du_second' = test_nd2_timestamps(du_first.times, du_periodMs)
    /\ du_pc' = "twice"
    /\ UNCHANGED <<du_times, du_periodMs, du_first>>
    /\ UNCHANGED <<rcVars, grVars, twVars, nzVars, pbVars, lwVars>>

(***************************************************************************)
(* The image part of nd2_file_to_dask as a state machine: one call.        *)
(***************************************************************************)
ChannelLists == {<<"DAPI", "GFP">>, <<"GFP", "DAPI", "mRuby">>, <<"mRuby">>}
ColumnOf(n) == [k \in 1..n |-> <<0, 100 * k>>]

NzIdle ==
    /\ nz_file = File("TimeLoop", 0, FALSE, 0, <<"DAPI">>, <<>>, "stuck", 0)
    /\ nz_zlen = 0
    /\ nz_channel_names = <<>>
    /\ nz_result = Raised("none")
    /\ nz_pc = "idle"

\* zlen is the largest z extent of the folder, so at least the file's own
NzInit ==
    /\ \E t \in 0..MaxT, sq \in BOOLEAN, z \in 0..MaxZ, p \in 1..MaxP,
          names \in ChannelLists :
          nz_file = File("TimeLoop", t, sq, z, names, ColumnOf(p), "running", 0)
    /\ nz_zlen \in get_zstack_size(nz_file.coord_info)..(MaxZ + 3)
    /\ nz_channel_names \in ChannelLists
    /\ nz_result = Raised("none")
    /\ nz_pc = "call"

Normalize ==
    /\ nz_pc = "call"
    /\ nz_result' = nd2_image(nz_file, nz_zlen, nz_channel_names)
    /\ nz_result'.ok
    /\ nz_pc' = "returned"
    /\ UNCHANGED <<nz_file, nz_zlen, nz_channel_names>>
    /\ UNCHANGED <<rcVars, grVars, twVars, duVars, pbVars, lwVars>>

NormalizeRaises ==
    /\ nz_pc = "call"
    /\ nz_result' = nd2_image(nz_file, nz_zlen, nz_channel_names)
    /\ ~nz_result'.ok
    /\ nz_pc' = "raised"
    /\ UNCHANGED <<nz_file, nz_zlen, nz_channel_names>>
    /\ UNCHANGED <<rcVars, grVars, twVars, duVars, pbVars, lwVars>>

(***************************************************************************)
(* The folder prober as a state machine: one call on a chosen folder.      *)
(***************************************************************************)
ProbeLists == {<<"DAPI">>, <<"DAPI", "GFP">>, <<"GFP", "DAPI">>, <<"DAPI", "mRuby">>,
               <<"DAPI", "DAPI">>, <<"DAPI", "GFP", "mRuby">>}
ProbeFiles ==
    {File("TimeLoop", 0, FALSE, z, names, ColumnOf(1), "running", 0) :
        z \in 0..MaxZ, names \in ProbeLists}

PbIdle ==
    /\ pb_folder = <<>>
    /\ pb_result = Raised("none")
    /\ pb_pc = "idle"

PbInit ==
    /\ pb_folder \in {<<>>} \cup SeqsUpTo(ProbeFiles, MaxFiles)
    /\ pb_result = Raised("none")
    /\ pb_pc = "call"

Probe ==
    /\ pb_pc = "call"
    /\ pb_result' = get_nd2_files_in_folder(pb_folder)
    /\ pb_result'.ok
    /\ pb_pc' = "returned"
    /\ UNCHANGED pb_folder
    /\ UNCHANGED <<rcVars, grVars, twVars, duVars, nzVars, lwVars>>

ProbeRaises ==
    /\ pb_pc = "call"
    /\ pb_result' = get_nd2_files_in_folder(pb_folder)
    /\ ~pb_result'.ok
    /\ pb_pc' = "raised"
    /\ UNCHANGED pb_folder
    /\ UNCHANGED <<rcVars, grVars, twVars, duVars, nzVars, lwVars>>

(***************************************************************************)
(* The widget as a state machine: every click runs the whole handler on    *)
(* the folder then in file_edit.                                           *)
(***************************************************************************)
TwoLanes == <<<<0, 0>>, <<4000, 0>>>>
OneLane == <<<<0, 0>>, <<0, 100>>>>
Stray == <<<<0, 0>>, <<4000, 0>>, <<10000, 0>>>>
\* two files on a two-lane chip that differ in every extent, one whose
\* positions lie in a single lane and one with a position outside every lane
LoadFiles ==
    {File("TimeLoop", 0, FALSE, 2, <<"DAPI", "GFP">>, TwoLanes, "running", 1000),
     File("TimeLoop", 2, FALSE, 3, <<"DAPI", "GFP", "mRuby">>, TwoLanes, "stuck", 1000),
     File("TimeLoop", 2, FALSE, 3, <<"DAPI", "GFP", "mRuby">>, OneLane, "stuck", 1000),
     File("TimeLoop", 0, FALSE, 3, <<"DAPI", "GFP">>, Stray, "running", 1000)}
\* os.listdir names every file once
LoadFolders ==
    {fs \in {<<>>} \cup SeqsUpTo(LoadFiles, MaxFiles) :
        \A m, n \in 1..Len(fs) : m # n => fs[m] # fs[n]}
\* exp-info.yaml, absent or present
ExpInfoFiles ==
    {None, Some([invert_stage_x |-> FALSE, invert_stage_y |-> FALSE])}
\* without exp-info.yaml the handler ends before it reads a file's frames, so
\* the folders of at most one file stand for all
LoadRoots ==
    {root \in [files : LoadFolders, yaml : ExpInfoFiles] :
        root.yaml = None => Len(root.files) <= 1}

Widget ==
    [channel_names |-> self_channel_names,
     exp_info |-> self_exp_info,
     times |-> self_times,
     stack |-> self_stack,
     chip_channel_names |-> self_chip_channel_names,
     colors |-> self_colors,
     opacities |-> self_opacities,
     layers |-> viewer_layers,
     connected |-> viewer_connected]

LwIdle ==
    /\ self_channel_names = None
    /\ self_exp_info = None
    /\ self_times = None
    /\ self_stack = None
    /\ self_chip_channel_names = None
    /\ self_colors = None
    /\ self_opacities = None
    /\ viewer_layers = <<>>
    /\ viewer_connected = 0
    /\ lw_root = [files |-> <<>>, yaml |-> None]
    /\ lw_outcome = "none"
    /\ lw_clicks = 0

\* the state __init__ leaves
LwInit == LwIdle

Click(root, outcome) ==
    \E r \in {on_click(root, Widget)} :
        /\ (r.at = "return") <=> (outcome = "returned")
        /\ self_channel_names' = r.w.channel_names
        /\ self_exp_info' = r.w.exp_info
        /\ self_times' = r.w.times
        /\ self_stack' = r.w.stack
        /\ self_chip_channel_names' = r.w.chip_channel_names
        /\ self_colors' = r.w.colors
        /\ self_opacities' = r.w.opacities
        /\ viewer_layers' = r.w.layers
        /\ viewer_connected' = r.w.connected
        /\ lw_root' = root
        /\ lw_outcome' = outcome
        /\ lw_clicks' = lw_clicks + 1
        /\ UNCHANGED <<rcVars, grVars, twVars, duVars, nzVars, pbVars>>

\* the handler runs to its end
OnClickReturns ==
    \E root \in LoadRoots : lw_clicks < MaxClicks /\ Click(root, "returned")
\* the handler ends with an exception, which the caller sees
OnClickRaises ==
    \E root \in LoadRoots : lw_clicks < MaxClicks /\ Click(root, "raised")

(***************************************************************************)
(* Specifications.                                                         *)
(***************************************************************************)
OtherIdle(groups) ==
    /\ "rc" \in groups \/ RcIdle
    /\ "gr" \in groups \/ GrIdle
    /\ "tw" \in groups \/ TwIdle
    /\ "du" \in groups \/ DuIdle
    /\ "nz" \in groups \/ NzIdle
    /\ "pb" \in groups \/ PbIdle
    /\ "lw" \in groups \/ LwIdle

InitChannels == RcInit /\ OtherIdle({"rc"})
NextChannels == Reconcile
SpecChannels == InitChannels /\ [][NextChannels]_vars

InitGrid == GrInit /\ OtherIdle({"gr"})
NextGrid == Resolve \/ ResolveRaises
SpecGrid == InitGrid /\ [][NextGrid]_vars

InitTimes == TwInit /\ OtherIdle({"tw"})
NextTimes ==
    \/ WalkNoTimeNoZ
    \/ WalkNoTime
    \/ WalkNoZ
    \/ WalkFull
    \/ WalkIndexError
    \/ WalkReturn
SpecTimes == InitTimes /\ [][NextTimes]_vars

InitDup == DuInit /\ OtherIdle({"du"})
NextDup == TestTimestamps \/ TestTimestampsAgain
SpecDup == InitDup /\ [][NextDup]_vars

InitNormalize == NzInit /\ OtherIdle({"nz"})
NextNormalize == Normalize \/ NormalizeRaises
SpecNormalize == InitNormalize /\ [][NextNormalize]_vars

InitProbe == PbInit /\ OtherIdle({"pb"})
NextProbe == Probe \/ ProbeRaises
SpecProbe == InitProbe /\ [][NextProbe]_vars

InitLoad == LwInit /\ OtherIdle({"lw"})
NextLoad == OnClickReturns \/ OnClickRaises
SpecLoad == InitLoad /\ [][NextLoad]_vars

\* every component at once
Init == RcInit /\ GrInit /\ TwInit /\ DuInit /\ NzInit /\ PbInit /\ LwInit
Next == NextChannels \/ NextGrid \/ NextTimes \/ NextDup \/ NextNormalize
          \/ NextProbe \/ NextLoad
Spec == Init /\ [][Next]_vars

(***************************************************************************)
(* C6.  Grid resolution order.                                             *)
(***************************************************************************)
XSet(pos) == {pos[k][1] : k \in 1..Len(pos)}
\* the lane pitch of a grid: the gap between the two leftmost lanes
Pitch(pos) ==
    LET rest == XSet(pos) \ {min_x(pos)}
    IN  (CHOOSE m \in rest : \A x \in rest : m <= x) - min_x(pos)
\* at least two lanes, at most LaneCount, all occupied, evenly spaced with a
\* pitch inside the window
IsGrid(pos) ==
    /\ Cardinality(XSet(pos)) >= 2
    /\ Cardinality(XSet(pos)) <= LaneCount
    /\ Pitch(pos) > WindowLow
    /\ Pitch(pos) < WindowHigh
    /\ XSet(pos) = {min_x(pos) + k * Pitch(pos) : k \in 0..(Cardinality(XSet(pos)) - 1)}
\* no distance between two lanes that are not neighbours lies in the window
NeighboursOnly(pos) ==
    Cardinality(XSet(pos)) <= 2 \/ 2 * Pitch(pos) >= WindowHigh

ResolvedInOrder(res, invert_y) ==
    LET p == res.total_sort
        pos == res.pos
        at(a) == pos[p[a] + 1]
    IN  /\ Len(p) = Len(pos)
        /\ Range(p) = 0..(Len(pos) - 1)
        /\ \A a \in 1..(Len(p) - 1) :
              \/ at(a)[1] < at(a + 1)[1]
              \/ /\ at(a)[1] = at(a + 1)[1]
                 /\ IF invert_y THEN at(a)[2] >= at(a + 1)[2]
                                ELSE at(a)[2] <= at(a + 1)[2]
        /\ \A a \in 1..Len(p) :
              /\ res.channel_names[p[a]] # NoName
              /\ res.channel_names[p[a]].row =
                    1 + Cardinality({b \in 1..(a - 1) : at(b)[1] = at(a)[1]})
              /\ res.channel_names[p[a]].lane =
                    1 + Cardinality({x \in XSet(pos) : x < at(a)[1]})

\* C6 as stated: for every grid of at most 10 lanes with a pitch inside the
\* window, the returned indices are a permutation of all positions in lane
\* order then row order, and the labels number each lane's rows 1..count.
C6_AnyPitchInWindow ==
    (gr_pc = "returned" /\ IsGrid(gr_result.pos))
        => ResolvedInOrder(gr_result, gr_invert_y)

\* C6 amended: the same, for grids in which only neighbouring lanes are at a
\* distance inside the window (two lanes, or a pitch of at least 3000), with
\* x taken after the optional inversion.
C6_GridOrder ==
    (gr_pc = "returned" /\ IsGrid(gr_result.pos) /\ NeighboursOnly(gr_result.pos))
        => ResolvedInOrder(gr_result, gr_invert_y)

C6_Witness ==
    /\ gr_pc = "returned"
    /\ IsGrid(gr_result.pos)
    /\ NeighboursOnly(gr_result.pos)
    /\ Cardinality(XSet(gr_result.pos)) = 2
    /\ gr_invert_x
    /\ gr_invert_y
    /\ gr_result.total_sort = <<2, 0, 1>>


(***************************************************************************)
(* C2.  Timestamp reconstruction.                                          *)
(***************************************************************************)
\* the frames walked that address cell c: the same position, the same
\* timepoint when the file has a time loop, the same z when it has a z loop
FramesOf(c) ==
    {f \in 0..(tw_frameCount - 1) :
        LET co == coords_from_seq_index(tw_coord_info, f)
            k == IF TwTlen_ = 0 THEN co[1] ELSE co[2]
        IN  /\ k = c[2]
            /\ TwTlen_ # 0 => co[1] = c[1]
            /\ TwZlen_ # 0 => co[Len(co)] = c[3]}

\* C2: once all frames 0..frameCount-1 are walked, a cell addressed by an
\* acquired frame holds that frame's timestamp, for every index of an axis
\* the file lacks, and every other cell is still zero.
C2_TimestampsRecovered ==
    tw_pc = "returned" =>
        \A c \in Cells(tw_tmp_times.shape) :
            /\ \A f \in FramesOf(c) :
                  tw_tmp_times.at[c] = absoluteJulianDayNumber(tw_clock, f)
            /\ FramesOf(c) = {} => tw_tmp_times.at[c] = 0

\* a file with a time loop and no z loop, fully walked into a tensor with
\* three z planes, under a clock that tells the frames apart
C2_Witness ==
    /\ tw_pc = "returned"
    /\ TwTlen_ = 2 /\ TwZlen_ = 0 /\ tw_zlen = 3
    /\ tw_frameCount = 4
    /\ tw_clock = "running"
    /\ tw_tmp_times.at[<<1, 1, 2>>] = FirstStamp + 3


(***************************************************************************)
(* C4.  Duplicate-timestamp correction.                                    *)
(***************************************************************************)
MoreThanOneTimepoint(times) == times.shape[1] > 1
AllDifferencesZero(times) ==
    \A c \in Cells(times.shape) :
        c[1] >= 1 => times.at[c] = times.at[<<c[1] - 1, c[2], c[3]>>]

\* C4: the correction is applied exactly when the tensor has more than one
\* timepoint and every difference along time is zero; applied, it adds to
\* timepoint i of every cell i times periodMs / 1000 / 86400 days; not
\* applied, the tensor comes back as it was.
C4_CorrectionRule ==
    du_pc # "call" =>
        /\ du_first.adjusted <=>
              (MoreThanOneTimepoint(du_times) /\ AllDifferencesZero(du_times))
        /\ du_first.times.shape = du_times.shape
        /\ du_first.adjusted =>
              \A c \in Cells(du_times.shape) :
                  du_first.times.at[c] = du_times.at[c] +
                      RoundDiv(c[1] * du_periodMs * TicksPerDay, 1000 * 86400)
        /\ ~du_first.adjusted => du_first.times = du_times

\* a three-timepoint tensor of identical rows, corrected with a two-second period
C4_Witness ==
    /\ du_pc = "once"
    /\ du_first.adjusted
    /\ du_times.shape = <<3, 2, 2>>
    /\ du_periodMs = 2000
    /\ du_first.times.at[<<2, 1, 1>>] = du_times.at[<<2, 1, 1>>] + 4

(***************************************************************************)
(* C7.  Idempotence of the correction.                                     *)
(***************************************************************************)
\* C7 as stated: whenever the correction fired, a second run on the
\* corrected tensor detects no duplicate run and returns it unchanged.
C7_Idempotent ==
    (du_pc = "twice" /\ du_first.adjusted) =>
        (~du_second.adjusted /\ du_second.times = du_first.times)

HasCells(times) == times.shape[2] >= 1 /\ times.shape[3] >= 1
\* the increment of one period is at least one tick of the stored timestamps
PeriodResolved(periodMs) == add_time(1, periodMs) >= 1

\* C7 amended: the same, for a tensor with at least one (position, z) cell and
\* a configured period that the stored timestamps resolve (in particular a
\* period that is not zero).
C7_IdempotentWhenResolved ==
    (du_pc = "twice" /\ du_first.adjusted
        /\ HasCells(du_times) /\ PeriodResolved(du_periodMs)) =>
        (~du_second.adjusted /\ du_second.times = du_first.times)

C7_Witness ==
    /\ du_pc = "twice"
    /\ du_first.adjusted
    /\ du_times.shape = <<3, 2, 2>>
    /\ du_periodMs = 1000
    /\ ~du_second.adjusted
    /\ du_second.times.at[<<2, 0, 0>>] = FirstStamp + 2


(***************************************************************************)
(* C3 and C8.  The normalized shape and the z padding.                     *)
(***************************************************************************)
\* C3: whatever the file's own extents, the image returned has six axes, a
\* z axis of the canonical zlen and a channel axis of the canonical channels.
C3_NormalizedShape ==
    nz_pc = "returned" =>
        /\ Len(nz_result.value.shape) = 6
        /\ nz_result.value.shape[3] = nz_zlen
        /\ nz_result.value.shape[4] = Len(nz_channel_names)

\* C8: a file without z axis padded to Z planes has exactly Z planes, one of
\* them the file's real plane, at index (Z - 1) // 2, the others zero.
C8_CenteredPadding ==
    (nz_pc = "returned" /\ get_zstack_size(nz_file.coord_info) = 0) =>
        /\ nz_result.value.shape[3] = nz_zlen
        /\ Len(nz_result.value.zsrc) = nz_zlen
        /\ \A k \in 1..nz_zlen :
              nz_result.value.zsrc[k] # ZeroPlane <=> k - 1 = (nz_zlen - 1) \div 2

(***************************************************************************)
(* C1.  Channel reconciliation.                                            *)
(***************************************************************************)
\* C1: the image returned has one channel plane per canonical name, in the
\* canonical order: plane i is the file's plane at the first index of the
\* i-th canonical name in the file's list, or a zero plane when the file has
\* no such channel; the other axes are those of the file's image.
C1_ReconciledChannels ==
    rc_pc = "returned" =>
        /\ Len(rc_img.chan) = Len(rc_channel_names)
        /\ rc_img.shape = <<2, Len(rc_channel_names)>> \o FrameYX
        /\ \A i \in 1..Len(rc_channel_names) :
              IF \E j \in 1..Len(rc_channel_names_) :
                    rc_channel_names_[j] = rc_channel_names[i]
              THEN \E j \in 1..Len(rc_channel_names_) :
                      /\ rc_channel_names_[j] = rc_channel_names[i]
                      /\ \A k \in 1..(j - 1) :
                            rc_channel_names_[k] # rc_channel_names[i]
                      /\ rc_img.chan[i] = j
              ELSE rc_img.chan[i] = ZeroPlane

\* a file with DAPI and GFP reconciled to GFP, mRuby, DAPI
C1_Witness ==
    /\ rc_pc = "returned"
    /\ rc_channel_names = <<"GFP", "mRuby", "DAPI">>
    /\ rc_channel_names_ = <<"DAPI", "GFP">>
    /\ rc_img.chan = <<2, ZeroPlane, 1>>

(***************************************************************************)
(* C5.  The canonical shape of a folder.                                   *)
(***************************************************************************)
ZOf(n) == get_zstack_size(pb_folder[n].coord_info)
NamesOf(n) == Range(pb_folder[n].channel_names)
DuplicateFree(names) == Cardinality(Range(names)) = Len(names)

\* C5 as stated: zlen is at least every file's z extent and channel_names
\* contains every channel of every file of the folder.
C5_CanonicalCoversAll ==
    pb_pc = "returned" =>
        \A n \in 1..Len(pb_folder) :
            /\ ZOf(n) <= pb_result.value.zlen
            /\ NamesOf(n) \subseteq Range(pb_result.value.channel_names)

\* C5 amended: zlen is at least every file's z extent; channel_names is the
\* list of one file of the folder, as long as any file's; it contains every
\* channel of every file when no file names a channel twice and one file of
\* the folder has all the channels of the others.
C5_CanonicalOfRichestFile ==
    pb_pc = "returned" =>
        /\ \A n \in 1..Len(pb_folder) :
              /\ ZOf(n) <= pb_result.value.zlen
              /\ Len(pb_folder[n].channel_names) <= Len(pb_result.value.channel_names)
        /\ \E n \in 1..Len(pb_folder) :
              pb_result.value.channel_names = pb_folder[n].channel_names
        /\ ( /\ \A n \in 1..Len(pb_folder) : DuplicateFree(pb_folder[n].channel_names)
             /\ \E m \in 1..Len(pb_folder) :
                   \A n \in 1..Len(pb_folder) : NamesOf(n) \subseteq NamesOf(m) )
            => \A n \in 1..Len(pb_folder) :
                   NamesOf(n) \subseteq Range(pb_result.value.channel_names)

\* a z stack with one channel followed by a flat file with two
C5_Witness ==
    /\ pb_pc = "returned"
    /\ Len(pb_folder) = 2
    /\ ZOf(1) = 2
    /\ ZOf(2) = 0
    /\ pb_folder[1].channel_names = <<"DAPI">>
    /\ pb_folder[2].channel_names = <<"DAPI", "GFP">>
    /\ pb_result.value.zlen = 2
    /\ pb_result.value.channel_names = <<"DAPI", "GFP">>

(***************************************************************************)
(* C9 and C10.  Failed loads.                                              *)
(***************************************************************************)
\* the stage positions of f do not resolve into a grid: no distance along x
\* lies in the window, or some position is in no lane band
Unresolved(f, exp_info) ==
    LET res == get_position_names_and_inds(f.points, exp_info.invert_stage_x,
                                           exp_info.invert_stage_y)
    IN  \/ nearest_neighbors(res.pos) = <<>>
        \/ Len(res.total_sort) < Len(f.points)

\* C9: a first click on a folder with exp-info.yaml and a file whose stage
\* positions do not resolve into a grid ends as a failed load, and installs
\* no stack, no timestamp tensor and no layer.
C9_GridFailurePropagates ==
    ( /\ lw_clicks = 1
      /\ lw_root.yaml # None
      /\ \E n \in 1..Len(lw_root.files) : Unresolved(lw_root.files[n], lw_root.yaml[1]) )
        => /\ lw_outcome = "raised"
           /\ self_stack = None
           /\ self_times = None
           /\ viewer_layers = <<>>

\* C10: a click that fails leaves the widget's fields, the viewer's layers
\* and the cursor-event connection as they were before the click.
C10_FailedLoadChangesNothing ==
    [][lw_outcome' = "raised" =>
          UNCHANGED <<selfVars, viewer_layers, viewer_connected>>]_vars

====
